---- MODULE Spec2Model ----
(***************************************************************************)
(* The Keccak hasher of src/src/keccak.rs: the pass-through build          *)
(* (cfg(not(target_os = "zkvm"))) and the zkvm build, which buffers raw    *)
(* input up to a threshold and then either hands the buffer to the         *)
(* accelerated digest primitive of the guest environment or commits to     *)
(* the sponge.                                                             *)
(*                                                                         *)
(* KeccakState, KeccakF and bits_to_rate live in the crate root, which is  *)
(* not part of the source at hand; they are modelled from the design       *)
(* document.  The permutation is modelled as a free injective function:    *)
(* a buffer is the list of the blocks that were permuted so far (hist)     *)
(* and the bytes XORed into the state since the last permutation (x).      *)
(* Two buffers that are equal here are equal for every permutation.        *)
(***************************************************************************)
EXTENDS Integers, Sequences, FiniteSets, TLC

VARIABLES target, bits, self, pc, calls, output, fin

vars == <<target, bits, self, pc, calls, output, fin>>

(***************************************************************************)
(* Bounds of the model.  Threshold stands for the 100_000 of keccak.rs:91, *)
(* scaled down so that byte sequences on both sides of it are enumerable.  *)
(***************************************************************************)
Threshold == 3
MaxCalls == 3

Min(a, b) == IF a < b THEN a ELSE b

Fill(n, b) == [i \in 1..n |-> b]

RECURSIVE Flatten(_)
Flatten(ss) == IF ss = <<>> THEN <<>> ELSE Head(ss) \o Flatten(Tail(ss))

RECURSIVE bxor(_, _)
bxor(a, b) ==
    IF a = 0 THEN b
    ELSE IF b = 0 THEN a
    ELSE ((a + b) % 2) + 2 * bxor(a \div 2, b \div 2)

(***************************************************************************)
(* Sponge State Engine (crate root; modelled from the design document).    *)
(***************************************************************************)
StateBytes == 200

Variants == {224, 256, 384, 512}

bits_to_rate(b) == StateBytes - 2 * (b \div 8)

ZeroBuffer == [hist |-> <<>>, x |-> [i \in 1..StateBytes |-> 0]]

\* Permutation: the block becomes part of the history, the XOR delta restarts.
keccak(buffer) == [hist |-> Append(buffer.hist, buffer.x), x |-> ZeroBuffer.x]

\* XOR src into the state bytes offset .. offset + Len(src) - 1.
xorin(buffer, offset, src) ==
    [buffer EXCEPT !.x = [i \in 1..StateBytes |->
        IF i > offset /\ i <= offset + Len(src)
        THEN bxor(buffer.x[i], src[i - offset])
        ELSE buffer.x[i]]]

KeccakState_new(rate, delim) ==
    [buffer |-> ZeroBuffer, offset |-> 0, rate |-> rate, delim |-> delim]

\* KeccakState_update that permutes a full block only when more input follows.
RECURSIVE KeccakState_update_lazy(_, _)
KeccakState_update_lazy(st, input) ==
    IF input = <<>> THEN st
    ELSE IF st.offset = st.rate
    THEN KeccakState_update_lazy([st EXCEPT !.buffer = keccak(st.buffer), !.offset = 0], input)
    ELSE LET n  == Min(st.rate - st.offset, Len(input))
             b1 == xorin(st.buffer, st.offset, SubSeq(input, 1, n))
         IN  KeccakState_update_lazy([st EXCEPT !.buffer = b1, !.offset = st.offset + n],
                                     SubSeq(input, n + 1, Len(input)))

\* Absorb: XOR the input at the cursor; permute whenever the cursor reaches rate.
RECURSIVE KeccakState_update(_, _)
KeccakState_update(st, input) ==
    IF input = <<>> THEN st
    ELSE LET n  == Min(st.rate - st.offset, Len(input))
             b1 == xorin(st.buffer, st.offset, SubSeq(input, 1, n))
             o1 == st.offset + n
         IN  IF o1 = st.rate
             THEN KeccakState_update([st EXCEPT !.buffer = keccak(b1), !.offset = 0],
                                     SubSeq(input, n + 1, Len(input)))
             ELSE [st EXCEPT !.buffer = b1, !.offset = o1]

\* Multi-rate padding: delimiter at the cursor, 0x80 at byte rate - 1.
pad(st) ==
    xorin(xorin(st.buffer, st.offset, <<st.delim>>), st.rate - 1, <<128>>)

\* An output buffer: bytes[i] = <<k, j>> is byte j of the k-th squeezed state
\* from[k]; k = 0 is byte j of the caller's own, unwritten, buffer.
Blank(n) == [from |-> <<>>, bytes |-> [i \in 1..n |-> <<0, i>>]]

OutLen(out) == Len(out.bytes)

RECURSIVE squeeze(_, _, _, _)
squeeze(buffer, rate, n, out) ==
    IF n = 0 THEN out
    ELSE LET k    == Len(out.from) + 1
             m    == Min(rate, n)
             out1 == [from  |-> Append(out.from, buffer),
                      bytes |-> out.bytes \o [j \in 1..m |-> <<k, j>>]]
         IN  IF n <= rate THEN out1
             ELSE squeeze(keccak(buffer), rate, n - rate, out1)

\* Pad, permute, then squeeze rate bytes at a time into the whole of output.
KeccakState_finalize(st, out) ==
    squeeze(keccak(pad(st)), st.rate, OutLen(out), [from |-> <<>>, bytes |-> <<>>])

(***************************************************************************)
(* The guest environment's accelerated primitive                           *)
(* risc0_zkvm::guest::env::keccak_digest(data, delim) -> Result<digest>.   *)
(* It is given the data and the delimiter only.  env is what the host      *)
(* does: it rejects the call, or it answers with the Keccak digest of      *)
(* security level env.bits (env.bits / 8 bytes, rate bits_to_rate).        *)
(***************************************************************************)
Envs == {[fail |-> TRUE, bits |-> 256]} \cup {[fail |-> FALSE, bits |-> b] : b \in Variants}

KeccakDigest(rate, delim, data, n) ==
    KeccakState_finalize(KeccakState_update(KeccakState_new(rate, delim), data), Blank(n))

keccak_digest(data, delim, env) ==
    IF env.fail
    THEN [ok |-> FALSE, digest |-> Blank(0)]
    ELSE [ok |-> TRUE,
          digest |-> KeccakDigest(bits_to_rate(env.bits), delim, data, env.bits \div 8)]

\* <[u8]>::clone_from_slice: panics unless both slices have the same length.
clone_from_slice(dst, src) ==
    IF OutLen(dst) = OutLen(src)
    THEN [ok |-> TRUE, val |-> src]
    ELSE [ok |-> FALSE, val |-> dst]

(***************************************************************************)
(* struct Keccak and impl Hasher for Keccak (src/src/keccak.rs).           *)
(* zkvm is the build: TRUE for cfg(target_os = "zkvm").  trace is a ghost  *)
(* field: the calls made to self.state.update, each with the source line   *)
(* of the call and its argument.                                           *)
(***************************************************************************)
DELIM == 1

\* new with the SHA-3 delimiter in place of Self::DELIM.
new_sha3_delim(b, zkvm) ==
    IF zkvm
    THEN [state     |-> KeccakState_new(bits_to_rate(b), 6),
          raw_data  |-> <<>>,
          slow_path |-> FALSE,
          trace     |-> <<>>]
    ELSE [state |-> KeccakState_new(bits_to_rate(b), 6),
          trace |-> <<>>]

new(b, zkvm) ==
    IF zkvm
    THEN [state     |-> KeccakState_new(bits_to_rate(b), DELIM),
          raw_data  |-> <<>>,
          slow_path |-> FALSE,
          trace     |-> <<>>]
    ELSE [state |-> KeccakState_new(bits_to_rate(b), DELIM),
          trace |-> <<>>]

v224(zkvm) == new(224, zkvm)
v256(zkvm) == new(256, zkvm)
v384(zkvm) == new(384, zkvm)
v512(zkvm) == new(512, zkvm)

\* update (not zkvm) with the forwarding call left out.
update_not_zkvm_dropped(h, input) == h

\* cfg(not(target_os = "zkvm"))
update_not_zkvm(h, input) ==
    [h EXCEPT !.state = KeccakState_update(@, input),
              !.trace = Append(@, [line |-> 85, arg |-> input])]

\* update_zkvm with the flush of line 93 left out.
update_zkvm_no_flush(h, input) ==
    LET h1 == IF ~h.slow_path
              THEN IF Len(h.raw_data) + Len(input) > Threshold
                   THEN [h EXCEPT !.slow_path = TRUE]
                   ELSE [h EXCEPT !.raw_data = @ \o input]
              ELSE h
    IN  IF h1.slow_path
        THEN [h1 EXCEPT !.state = KeccakState_update(@, input),
                        !.trace = Append(@, [line |-> 101, arg |-> input])]
        ELSE h1

\* update_zkvm with line 100 written as an else of line 90.
update_zkvm_else(h, input) ==
    IF ~h.slow_path
    THEN IF Len(h.raw_data) + Len(input) > Threshold
         THEN [h EXCEPT !.slow_path = TRUE,
                        !.state = KeccakState_update(@, h.raw_data),
                        !.trace = Append(@, [line |-> 93, arg |-> h.raw_data])]
         ELSE [h EXCEPT !.raw_data = @ \o input]
    ELSE [h EXCEPT !.state = KeccakState_update(@, input),
                   !.trace = Append(@, [line |-> 101, arg |-> input])]

\* update_zkvm with the flag recomputed from the lengths on every call.
update_zkvm_recompute(h, input) ==
    LET over == Len(h.raw_data) + Len(input) > Threshold
        h1 == IF over
              THEN IF ~h.slow_path
                   THEN [h EXCEPT !.slow_path = TRUE,
                                  !.state = KeccakState_update(@, h.raw_data),
                                  !.trace = Append(@, [line |-> 93, arg |-> h.raw_data])]
                   ELSE h
              ELSE [h EXCEPT !.slow_path = FALSE, !.raw_data = @ \o input]
    IN  IF h1.slow_path
        THEN [h1 EXCEPT !.state = KeccakState_update(@, input),
                        !.trace = Append(@, [line |-> 101, arg |-> input])]
        ELSE h1

\* update_zkvm that keeps appending to raw_data once committed.
update_zkvm_keep_buffering(h, input) ==
    LET h1 == IF ~h.slow_path /\ Len(h.raw_data) + Len(input) > Threshold
              THEN [h EXCEPT !.slow_path = TRUE,
                             !.state = KeccakState_update(@, h.raw_data),
                             !.trace = Append(@, [line |-> 93, arg |-> h.raw_data])]
              ELSE [h EXCEPT !.raw_data = @ \o input]
    IN  IF h1.slow_path
        THEN [h1 EXCEPT !.state = KeccakState_update(@, input),
                        !.trace = Append(@, [line |-> 101, arg |-> input])]
        ELSE h1

\* update_zkvm with the test of line 90 left out: the length test alone decides.
update_zkvm_reflush(h, input) ==
    LET h1 == IF Len(h.raw_data) + Len(input) > Threshold
              THEN [h EXCEPT !.slow_path = TRUE,
                             !.state = KeccakState_update(@, h.raw_data),
                             !.trace = Append(@, [line |-> 93, arg |-> h.raw_data])]
              ELSE IF ~h.slow_path THEN [h EXCEPT !.raw_data = @ \o input] ELSE h
    IN  IF h1.slow_path
        THEN [h1 EXCEPT !.state = KeccakState_update(@, input),
                        !.trace = Append(@, [line |-> 101, arg |-> input])]
        ELSE h1

\* update_zkvm with >= for the > of line 91.
update_zkvm_ge(h, input) ==
    LET h1 == IF ~h.slow_path
              THEN IF Len(h.raw_data) + Len(input) >= Threshold
                   THEN [h EXCEPT !.slow_path = TRUE,
                                  !.state = KeccakState_update(@, h.raw_data),
                                  !.trace = Append(@, [line |-> 93, arg |-> h.raw_data])]
                   ELSE [h EXCEPT !.raw_data = @ \o input]
              ELSE h
    IN  IF h1.slow_path
        THEN [h1 EXCEPT !.state = KeccakState_update(@, input),
                        !.trace = Append(@, [line |-> 101, arg |-> input])]
        ELSE h1

\* update_zkvm that empties raw_data once it has flushed it.
update_zkvm_clear(h, input) ==
    LET h1 == IF ~h.slow_path
              THEN IF Len(h.raw_data) + Len(input) > Threshold
                   THEN [h EXCEPT !.slow_path = TRUE,
                                  !.state = KeccakState_update(@, h.raw_data),
                                  !.trace = Append(@, [line |-> 93, arg |-> h.raw_data]),
                                  !.raw_data = <<>>]
                   ELSE [h EXCEPT !.raw_data = @ \o input]
              ELSE h
    IN  IF h1.slow_path
        THEN [h1 EXCEPT !.state = KeccakState_update(@, input),
                        !.trace = Append(@, [line |-> 101, arg |-> input])]
        ELSE h1

\* update_zkvm that appends the input before it tests the length.
update_zkvm_append_first(h, input) ==
    LET raw1 == h.raw_data \o input
        h1 == IF ~h.slow_path
              THEN IF Len(raw1) > Threshold
                   THEN [h EXCEPT !.slow_path = TRUE,
                                  !.raw_data = raw1,
                                  !.state = KeccakState_update(@, raw1),
                                  !.trace = Append(@, [line |-> 93, arg |-> raw1])]
                   ELSE [h EXCEPT !.raw_data = raw1]
              ELSE h
    IN  IF h1.slow_path
        THEN [h1 EXCEPT !.state = KeccakState_update(@, input),
                        !.trace = Append(@, [line |-> 101, arg |-> input])]
        ELSE h1

\* update_zkvm that also hands the input to the sponge while it buffers.
update_zkvm_always_absorb(h, input) ==
    LET h1 == IF ~h.slow_path
              THEN IF Len(h.raw_data) + Len(input) > Threshold
                   THEN [h EXCEPT !.slow_path = TRUE,
                                  !.state = KeccakState_update(@, h.raw_data),
                                  !.trace = Append(@, [line |-> 93, arg |-> h.raw_data])]
                   ELSE [h EXCEPT !.raw_data = @ \o input]
              ELSE h
    IN  [h1 EXCEPT !.state = KeccakState_update(@, input),
                   !.trace = Append(@, [line |-> 101, arg |-> input])]

\* cfg(target_os = "zkvm")
update_zkvm(h, input) ==
    LET h1 == IF ~h.slow_path
              THEN IF Len(h.raw_data) + Len(input) > Threshold
                   THEN [h EXCEPT !.slow_path = TRUE,
                                  !.state = KeccakState_update(@, h.raw_data),
                                  !.trace = Append(@, [line |-> 93, arg |-> h.raw_data])]
                   ELSE [h EXCEPT !.raw_data = @ \o input]
              ELSE h
    IN  IF h1.slow_path
        THEN [h1 EXCEPT !.state = KeccakState_update(@, input),
                        !.trace = Append(@, [line |-> 101, arg |-> input])]
        ELSE h1

\* The result of a finalize call: status is "ok" or "panic", output the
\* caller's buffer afterwards, sponge the number of calls to
\* self.state.finalize and accel the calls to keccak_digest (ghost).
NoCalls == [sponge |-> 0, accel |-> <<>>]

\* cfg(not(target_os = "zkvm"))
finalize_not_zkvm(h, out) ==
    [status |-> "ok",
     output |-> KeccakState_finalize(h.state, out),
     log    |-> [sponge |-> 1, accel |-> <<>>]]

\* finalize_zkvm that takes the accelerated primitive whatever the flag says.
finalize_zkvm_always_accel(h, out, env) ==
    LET ret == keccak_digest(h.raw_data, DELIM, env)
        lg  == [sponge |-> 0,
                accel  |-> <<[data |-> h.raw_data, delim |-> DELIM, ret |-> ret]>>]
    IN  IF ~ret.ok
        THEN [status |-> "panic", output |-> out, log |-> lg]
        ELSE LET c == clone_from_slice(out, ret.digest)
             IN  [status |-> IF c.ok THEN "ok" ELSE "panic", output |-> c.val, log |-> lg]

\* finalize_zkvm that falls back to the sponge when the primitive fails.
finalize_zkvm_fallback(h, out, env) ==
    IF h.slow_path
    THEN [status |-> "ok",
          output |-> KeccakState_finalize(h.state, out),
          log    |-> [sponge |-> 1, accel |-> <<>>]]
    ELSE LET ret == keccak_digest(h.raw_data, DELIM, env)
             acc == <<[data |-> h.raw_data, delim |-> DELIM, ret |-> ret]>>
         IN  IF ~ret.ok
             THEN [status |-> "ok",
                   output |-> KeccakState_finalize(KeccakState_update(h.state, h.raw_data), out),
                   log    |-> [sponge |-> 1, accel |-> acc]]
             ELSE LET c == clone_from_slice(out, ret.digest)
                  IN  [status |-> IF c.ok THEN "ok" ELSE "panic",
                       output |-> c.val,
                       log    |-> [sponge |-> 0, accel |-> acc]]

\* cfg(target_os = "zkvm")
finalize_zkvm(h, out, env) ==
    IF h.slow_path
    THEN [status |-> "ok",
          output |-> KeccakState_finalize(h.state, out),
          log    |-> [sponge |-> 1, accel |-> <<>>]]
    ELSE LET ret == keccak_digest(h.raw_data, DELIM, env)
             lg  == [sponge |-> 0,
                     accel  |-> <<[data |-> h.raw_data, delim |-> DELIM, ret |-> ret]>>]
         IN  IF ~ret.ok
             THEN [status |-> "panic", output |-> out, log |-> lg]   \* unwrap()
             ELSE LET c == clone_from_slice(out, ret.digest)
                  IN  [status |-> IF c.ok THEN "ok" ELSE "panic",
                       output |-> c.val,
                       log    |-> lg]

(***************************************************************************)
(* The caller: one hasher, update any number of times, finalize once.      *)
(***************************************************************************)
rate == bits_to_rate(bits)

\* The slices the caller passes: empty, one byte, exactly the threshold, and
\* one byte short of a block.
Inputs ==
    {<<>>, <<1>>, Fill(Threshold, 2), Fill(rate - 1, 128)}

OutLens == {32, bits \div 8, rate + 1}

Init ==
    /\ target \in BOOLEAN
    /\ bits \in Variants
    /\ self \in {v224(target), v256(target), v384(target), v512(target)}
    /\ self.state.rate = bits_to_rate(bits)
    /\ pc = "absorbing"
    /\ calls = <<>>
    /\ output = Blank(0)
    /\ fin = NoCalls

Update ==
    /\ target
    /\ pc = "absorbing"
    /\ Len(calls) < MaxCalls
    /\ \E input \in Inputs :
         /\ self' = update_zkvm(self, input)
         /\ calls' = Append(calls, input)
    /\ UNCHANGED <<target, bits, pc, output, fin>>

UpdateNotZkvm ==
    /\ ~target
    /\ pc = "absorbing"
    /\ Len(calls) < MaxCalls
    /\ \E input \in Inputs :
         /\ self' = update_not_zkvm(self, input)
         /\ calls' = Append(calls, input)
    /\ UNCHANGED <<target, bits, pc, output, fin>>

Finalize ==
    /\ target
    /\ pc = "absorbing"
    /\ \E n \in OutLens, env \in Envs :
         LET r == finalize_zkvm(self, Blank(n), env)
         IN  /\ output' = r.output
             /\ fin' = r.log
             /\ pc' = IF r.status = "ok" THEN "done" ELSE "panicked"
    /\ UNCHANGED <<target, bits, self, calls>>

FinalizeNotZkvm ==
    /\ ~target
    /\ pc = "absorbing"
    /\ \E n \in OutLens :
         LET r == finalize_not_zkvm(self, Blank(n))
         IN  /\ output' = r.output
             /\ fin' = r.log
             /\ pc' = IF r.status = "ok" THEN "done" ELSE "panicked"
    /\ UNCHANGED <<target, bits, self, calls>>

Next == Update \/ UpdateNotZkvm \/ Finalize \/ FinalizeNotZkvm

Spec == Init /\ [][Next]_vars

TypeOK ==
    /\ pc \in {"absorbing", "done", "panicked"}
    /\ Len(calls) <= MaxCalls

(***************************************************************************)
(* Helpers of the properties.                                              *)
(***************************************************************************)
Last(q) == q[Len(q)]

Total == Len(Flatten(calls))

\* The number of flushes of raw_data into the sponge (calls from line 93).
Flushes(h) == Cardinality({i \in 1..Len(h.trace) : h.trace[i].line = 93})

\* The sponge fed directly with the slices of q, one update per slice.
RECURSIVE Sponge(_, _)
Sponge(st, q) == IF q = <<>> THEN st ELSE Sponge(KeccakState_update(st, Head(q)), Tail(q))

\* Every call of the accelerated primitive returned the Keccak digest of the
\* buffer it was given, for the hasher's rate and the caller's output length.
AccelIsKeccak ==
    \A i \in 1..Len(fin.accel) :
        fin.accel[i].ret =
            [ok |-> TRUE,
             digest |-> KeccakDigest(rate, fin.accel[i].delim, fin.accel[i].data,
                                     OutLen(output))]

(***************************************************************************)
(* C1: path equivalence.  Whatever the update calls were, the digest that  *)
(* the zkvm hasher's finalize writes is the digest of the plain sponge     *)
(* that absorbs the concatenation of the inputs with delimiter 0x01,       *)
(* taking the accelerated primitive to return the Keccak digest of its     *)
(* buffer.                                                                 *)
(***************************************************************************)
C1_PathEquivalence ==
    (target /\ pc = "done" /\ AccelIsKeccak)
        => output = KeccakDigest(rate, 1, Flatten(calls), OutLen(output))

\* A digest written after the threshold was crossed in the middle of the calls.
C1_Witness ==
    /\ target /\ pc = "done" /\ self.slow_path
    /\ Len(calls) = 3
    /\ self.trace[1].line = 93 /\ self.trace[1].arg # <<>>
    /\ Len(self.state.buffer.hist) > 0

(***************************************************************************)
(* C2: chunking independence.  update(a); update(b) leaves the hasher      *)
(* committed or not, and holding the same bytes, exactly as update(a ++ b) *)
(* does, and every finalize of the one gives what it gives of the other.   *)
(***************************************************************************)
C2_ChunkingIndependence ==
    Len(calls) = 2 =>
        LET ab == calls[1] \o calls[2]
        IN  IF target
            THEN LET one == update_zkvm(new(bits, TRUE), ab)
                 IN  /\ one.slow_path = self.slow_path
                     /\ one.state = self.state
                     /\ ~self.slow_path => one.raw_data = self.raw_data
                     /\ \A n \in OutLens, env \in Envs :
                            finalize_zkvm(one, Blank(n), env) =
                            finalize_zkvm(self, Blank(n), env)
                     /\ pc # "absorbing" =>
                            \E env \in Envs :
                                LET r == finalize_zkvm(one, Blank(OutLen(output)), env)
                                IN  r.output = output /\ r.log = fin
            ELSE LET one == update_not_zkvm(new(bits, FALSE), ab)
                 IN  /\ one.state = self.state
                     /\ pc # "absorbing" =>
                            finalize_not_zkvm(one, Blank(OutLen(output))).output = output

\* a fits under the threshold, a ++ b does not, and the digest was written.
C2_Witness ==
    /\ target /\ pc = "done" /\ Len(calls) = 2
    /\ calls[1] # <<>> /\ Len(calls[1]) <= Threshold
    /\ Len(calls[1]) + Len(calls[2]) > Threshold

(***************************************************************************)
(* C3: the flag starts false and, once true, is true in every later state. *)
(***************************************************************************)
C3_FlagMonotonic ==
    /\ target => ~self.slow_path
    /\ [][(target /\ self.slow_path) => self'.slow_path]_vars

\* Two more update calls were made after the one that set the flag.
C3_Witness ==
    /\ target /\ self.slow_path
    /\ Len(self.trace) = 4

(***************************************************************************)
(* C4: once the flag is true an update call leaves raw_data and the flag   *)
(* alone and hands exactly its input to the sponge's update.               *)
(***************************************************************************)
C4_CommittedUpdate ==
    [][(target /\ self.slow_path /\ calls' # calls) =>
          /\ self'.raw_data = self.raw_data
          /\ self'.slow_path
          /\ self'.trace = Append(self.trace, [line |-> 101, arg |-> Last(calls')])
          /\ self'.state = KeccakState_update(self.state, Last(calls'))]_vars

\* A non-empty update made in the committed state, with bytes in raw_data.
C4_Witness ==
    /\ target /\ self.slow_path
    /\ self.raw_data # <<>>
    /\ Len(self.trace) >= 3
    /\ Last(calls) # <<>>

(***************************************************************************)
(* C5: raw_data is flushed into the sponge at most once; exactly once when *)
(* the flag is true; and the flush is made by the call that sets the flag. *)
(***************************************************************************)
C5_FlushOnce ==
    /\ [](target => Flushes(self) = IF self.slow_path THEN 1 ELSE 0)
    /\ [][target =>
            Flushes(self') - Flushes(self) =
                IF ~self.slow_path /\ self'.slow_path THEN 1 ELSE 0]_vars

\* The flush was made, of a non-empty buffer, and updates followed it.
C5_Witness ==
    /\ target /\ Flushes(self) = 1
    /\ self.trace[1].arg # <<>>
    /\ Len(calls) = MaxCalls
    /\ Len(self.trace) >= 3

(***************************************************************************)
(* C6: an update made while uncommitted.  If raw_len + input_len exceeds   *)
(* the threshold the hasher commits: the sponge absorbs raw_data, then the *)
(* input, and the input is not appended to raw_data.  Otherwise (the sum   *)
(* equal to the threshold included) the input is appended, the flag stays  *)
(* false and the sponge is not called.                                     *)
(***************************************************************************)
C6_UncommittedUpdate ==
    [][(target /\ ~self.slow_path /\ calls' # calls) =>
          LET input == Last(calls')
          IN  IF Len(self.raw_data) + Len(input) > Threshold
              THEN /\ self'.slow_path
                   /\ self'.trace = self.trace \o
                          <<[line |-> 93, arg |-> self.raw_data],
                            [line |-> 101, arg |-> input]>>
                   /\ self'.state =
                          KeccakState_update(KeccakState_update(self.state, self.raw_data),
                                             input)
                   /\ self'.raw_data = self.raw_data
              ELSE /\ self'.raw_data = self.raw_data \o input
                   /\ ~self'.slow_path
                   /\ self'.state = self.state
                   /\ self'.trace = self.trace]_vars

\* The buffer was filled to exactly the threshold; the next byte committed.
C6_Witness ==
    /\ target /\ self.slow_path
    /\ Len(self.raw_data) = Threshold
    /\ self.trace = <<[line |-> 93, arg |-> self.raw_data], [line |-> 101, arg |-> <<1>>]>>

(***************************************************************************)
(* C7: finalize routing.  The hasher is uncommitted at finalize exactly    *)
(* when the bytes supplied are at most the threshold.  Uncommitted,        *)
(* finalize calls the accelerated primitive once, on the whole of          *)
(* raw_data, with the delimiter the sponge was built with (0x01), and not  *)
(* the sponge's finalize; committed, it calls the sponge's finalize and    *)
(* not the primitive.                                                      *)
(***************************************************************************)
C7_FinalizeRouting ==
    (target /\ pc # "absorbing") =>
        /\ ~self.slow_path <=> Total <= Threshold
        /\ ~self.slow_path =>
              /\ fin.sponge = 0
              /\ Len(fin.accel) = 1
              /\ fin.accel[1].data = self.raw_data
              /\ fin.accel[1].delim = self.state.delim
              /\ fin.accel[1].delim = 1
        /\ self.slow_path =>
              /\ fin.sponge = 1
              /\ fin.accel = <<>>
              /\ pc = "done"
              /\ output = KeccakState_finalize(self.state, Blank(OutLen(output)))

\* Finalize of a hasher that holds exactly Threshold bytes.
C7_Witness ==
    /\ target /\ pc = "done"
    /\ Total = Threshold
    /\ Len(fin.accel) = 1

(***************************************************************************)
(* C8: finalize succeeds and fills the caller's buffer whatever its        *)
(* length, on the accelerated path and on the sponge path (the primitive   *)
(* not failing).                                                           *)
(***************************************************************************)
C8_AnyOutputLength ==
    (target /\ pc # "absorbing" /\ \A i \in 1..Len(fin.accel) : fin.accel[i].ret.ok) =>
        /\ pc = "done"
        /\ \A i \in 1..OutLen(output) : output.bytes[i][1] # 0

(***************************************************************************)
(* C9: when the accelerated primitive fails, finalize aborts: nothing is   *)
(* written to the output buffer and the sponge is not fallen back on.      *)
(***************************************************************************)
C9_PrimitiveFailureAborts ==
    (target /\ pc # "absorbing" /\ \E i \in 1..Len(fin.accel) : ~fin.accel[i].ret.ok) =>
        /\ pc = "panicked"
        /\ output = Blank(OutLen(output))
        /\ fin.sponge = 0

\* The primitive was called on buffered bytes and failed.
C9_Witness ==
    /\ target /\ pc = "panicked"
    /\ Len(fin.accel) = 1 /\ ~fin.accel[1].ret.ok
    /\ fin.accel[1].data # <<>>

(***************************************************************************)
(* C10: off zkvm the hasher is the sponge: it has no raw buffer and no     *)
(* flag, each update hands its input to the sponge's update, finalize is   *)
(* the sponge's finalize, and the state is that of the sponge fed the same *)
(* calls.                                                                  *)
(***************************************************************************)
C10_PassThrough ==
    ~target =>
        /\ DOMAIN self = {"state", "trace"}
        /\ self.state = Sponge(KeccakState_new(rate, 1), calls)
        /\ self.trace = [i \in 1..Len(calls) |-> [line |-> 85, arg |-> calls[i]]]
        /\ pc # "absorbing" =>
              /\ pc = "done"
              /\ fin = [sponge |-> 1, accel |-> <<>>]
              /\ output = KeccakState_finalize(Sponge(KeccakState_new(rate, 1), calls),
                                               Blank(OutLen(output)))

\* Several updates that filled a block, then a digest longer than a block.
C10_Witness ==
    /\ ~target /\ pc = "done"
    /\ Len(calls) >= 2
    /\ Len(self.state.buffer.hist) > 0
    /\ OutLen(output) > rate

\* p is a prefix of q.
IsPrefix(p, q) == Len(p) <= Len(q) /\ SubSeq(q, 1, Len(p)) = p

(***************************************************************************)
(* C11: raw_data never shrinks.  Across every update call, committed or    *)
(* not, the buffer before the call is a prefix of the buffer after it; the *)
(* flush at commitment does not clear it.                                  *)
(***************************************************************************)
C11_RawNeverShrinks ==
    [][target => IsPrefix(self.raw_data, self'.raw_data)]_vars

\* One byte was buffered, the next call committed, and the byte is still there.
C11_Witness ==
    /\ target /\ self.slow_path
    /\ Len(calls) = 2
    /\ self.raw_data = <<1>>
    /\ self.trace[1] = [line |-> 93, arg |-> <<1>>]

\* The rate, in bytes, that each security level is documented to have.
DocumentedRate(b) ==
    CASE b = 224 -> 144
      [] b = 256 -> 136
      [] b = 384 -> 104
      [] b = 512 -> 72

\* h is a hasher that has absorbed nothing, of the given rate.
IsInitial(h, r, zkvm) ==
    /\ h.state = [buffer |-> ZeroBuffer, offset |-> 0, rate |-> r, delim |-> 1]
    /\ zkvm => (h.raw_data = <<>> /\ ~h.slow_path)

(***************************************************************************)
(* C12: v224, v256, v384 and v512 each return a hasher in the initial      *)
(* state: the sponge of rate 200 - 2*(bits/8) bytes (144, 136, 104, 72)    *)
(* and delimiter 0x01 and, on zkvm, an empty raw_data and a false flag.    *)
(***************************************************************************)
C12_Constructors ==
    /\ self.state.rate = DocumentedRate(bits)
    /\ self.state.rate = 200 - 2 * (bits \div 8)
    /\ self.state.delim = 1
    /\ calls = <<>> => IsInitial(self, DocumentedRate(bits), target)
    /\ IsInitial(v224(target), 144, target)
    /\ IsInitial(v256(target), 136, target)
    /\ IsInitial(v384(target), 104, target)
    /\ IsInitial(v512(target), 72, target)

\* The hasher that v512 returned on zkvm, before any call.
C12_Witness ==
    /\ target /\ bits = 512
    /\ calls = <<>> /\ pc = "absorbing"
    /\ self = v512(TRUE)

\* The bytes handed to the sponge's update so far, in call order.
Absorbed(h) == Flatten([i \in 1..Len(h.trace) |-> h.trace[i].arg])

(***************************************************************************)
(* C13: byte conservation.  While the flag is false raw_data is the        *)
(* concatenation, in call order, of all inputs so far; once it is true the *)
(* bytes the sponge has absorbed are that concatenation.  Nothing is       *)
(* dropped, duplicated or reordered.                                       *)
(***************************************************************************)
C13_ByteConservation ==
    target =>
        IF ~self.slow_path
        THEN self.raw_data = Flatten(calls)
        ELSE /\ Absorbed(self) = Flatten(calls)
             /\ self.state = KeccakState_update(KeccakState_new(rate, 1), Flatten(calls))

\* Three non-empty inputs, the first of them buffered and flushed later.
C13_Witness ==
    /\ target /\ self.slow_path
    /\ Len(calls) = 3
    /\ \A i \in 1..3 : calls[i] # <<>>
    /\ self.raw_data # <<>>

(***************************************************************************)
(* C14: while the flag is false the sponge has absorbed nothing: it is as  *)
(* constructed, and no call of its update was made.                        *)
(***************************************************************************)
C14_SpongeUntouchedWhileBuffering ==
    (target /\ ~self.slow_path) =>
        /\ self.trace = <<>>
        /\ self.state = KeccakState_new(rate, 1)

\* Two calls buffered bytes and the hasher is still uncommitted.
C14_Witness ==
    /\ target /\ ~self.slow_path
    /\ pc = "absorbing"
    /\ Len(calls) = 2
    /\ calls[1] # <<>> /\ calls[2] # <<>>

(***************************************************************************)
(* C15: raw_data is never longer than the threshold, the call that commits *)
(* included, and so the buffer handed to the accelerated primitive is      *)
(* never longer than the threshold.                                        *)
(***************************************************************************)
C15_RawBounded ==
    target =>
        /\ Len(self.raw_data) <= Threshold
        /\ \A i \in 1..Len(fin.accel) : Len(fin.accel[i].data) <= Threshold

\* A full buffer, a committing call longer than the threshold, then finalize.
C15_Witness ==
    /\ target /\ self.slow_path /\ pc = "done"
    /\ Len(self.raw_data) = Threshold
    /\ Len(calls) = 2
    /\ Len(calls[2]) > Threshold

(***************************************************************************)
(* C16: the absorb cursor.  After sponge update calls of n bytes in all,   *)
(* 0 <= cursor < rate, cursor = n mod rate, and the permutation ran        *)
(* floor(n / rate) times; absorbing exactly rate bytes runs it once and    *)
(* leaves the cursor at 0.                                                 *)
(***************************************************************************)
C16_AbsorbCursor ==
    LET n == Len(Absorbed(self))
        r == self.state.rate
    IN  /\ 0 <= self.state.offset /\ self.state.offset < r
        /\ self.state.offset = n % r
        /\ Len(self.state.buffer.hist) = n \div r
        /\ n = r => (self.state.offset = 0 /\ Len(self.state.buffer.hist) = 1)

\* Exactly rate bytes were absorbed, in two calls.
C16_Witness ==
    /\ ~target /\ pc = "absorbing"
    /\ Len(self.trace) = 2
    /\ Len(Absorbed(self)) = self.state.rate
    /\ self.state.offset = 0
    /\ Len(self.state.buffer.hist) = 1

====
